---------------------------- MODULE Spec2Model ----------------------------
(***************************************************************************)
(* Resume parsing / job scraping pipeline (Data_Parsing.py,                *)
(* Data_Cleaning.py, Data_Integration.py).                                 *)
(*                                                                         *)
(* Strings are sequences of one-character strings.  A Python value is a    *)
(* record [t, v] with t in "str", "list", "dict", "none"; the text of a    *)
(* JSON file is a record [t, v] with t in "jstr", "jarr", "jobj",          *)
(* "corrupt" whose strings carry their escaped spelling.                   *)
(*                                                                         *)
(* Environment: os.makedirs succeeds, every program runs from the same     *)
(* working directory, and runs of the three programs do not overlap.       *)
(***************************************************************************)
EXTENDS Integers, Sequences, FiniteSets, TLC

VARIABLES
    files,      \* data/parsed_data_<ts>.json : ts -> file text or Absent
    order,      \* names of the existing data files, oldest mtime first
    now,        \* the wall clock, in seconds (strftime "%Y%m%d_%H%M%S")
    last,       \* what the most recent step did and returned
    scrape_dir, \* Web-scraped/jobs_<ts>.json : ts -> file text or Absent
    pc,         \* position of the call under study
    skills,     \* argument of construct_job_urls / scrape_jobs
    site,       \* argument of scrape_jobs_from_url
    outcomes,   \* what requests.get + BeautifulSoup give for each url
    max_posts,  \* argument of scrape_jobs_from_url
    result      \* the value the call returned

vars == <<files, order, now, last, scrape_dir, pc, skills, site, outcomes,
          max_posts, result>>

-----------------------------------------------------------------------------
(* Bounds *)

MaxTime == 1
MaxSkills == 4
MaxSkillLen == 3
MaxUrlSkills == 2
MaxCards == 3
MaxScrapeSkills == 2
MaxPosts == 2

-----------------------------------------------------------------------------
(* Generic helpers *)

Min(a, b) == IF a < b THEN a ELSE b

Prefix(s, n) == SubSeq(s, 1, Min(n, Len(s)))

RECURSIVE Flatten(_)
Flatten(ss) == IF ss = <<>> THEN <<>> ELSE Head(ss) \o Flatten(Tail(ss))

SeqsUpTo(S, n) == UNION {[1..k -> S] : k \in 0..n}

-----------------------------------------------------------------------------
(* construct_job_urls                                                      *)

Whitespace == {" ", "\t"}

\* str.split() with no argument: maximal runs of non-whitespace characters.
RECURSIVE SplitFrom(_, _)
SplitFrom(s, cur) ==
    IF s = <<>> THEN (IF cur = <<>> THEN <<>> ELSE <<cur>>)
    ELSE IF Head(s) \in Whitespace
         THEN (IF cur = <<>> THEN <<>> ELSE <<cur>>) \o SplitFrom(Tail(s), <<>>)
         ELSE SplitFrom(Tail(s), Append(cur, Head(s)))

Split(s) == SplitFrom(s, <<>>)

\* "+".join(words)
RECURSIVE Join(_, _)
Join(sep, words) ==
    IF words = <<>> THEN <<>>
    ELSE IF Len(words) = 1 THEN Head(words)
    ELSE Head(words) \o sep \o Join(sep, Tail(words))

\* base_urls, in insertion order; a template is its literal pieces around
\* the {query} placeholder.
base_urls ==
    << <<"indeed", <<"https://www.indeed.com/jobs?q=", "{query}", "&l=">> >>,
       <<"monster", <<"https://www.monster.com/jobs/search/?q=", "{query}", "&where=">> >>,
       <<"simplyhired", <<"https://www.simplyhired.com/search?q=", "{query}", "&l=">> >> >>

Sites == {base_urls[j][1] : j \in 1..Len(base_urls)}

\* template.format(query=q)
Format(template, q) ==
    Flatten([k \in 1..Len(template) |->
                IF template[k] = "{query}" THEN q ELSE <<template[k]>>])

RECURSIVE UrlsOfSkill(_, _)
UrlsOfSkill(q, items) ==
    IF items = <<>> THEN <<>>
    ELSE << <<Head(items)[1], Format(Head(items)[2], q)>> >>
         \o UrlsOfSkill(q, Tail(items))

\* A plausible slip: the two loops nested the other way round (site-major).
SiteMajorUrls(sk) ==
    Flatten([j \in 1..Len(base_urls) |->
        [i \in 1..Len(sk) |->
            <<base_urls[j][1], Format(base_urls[j][2], Join(<<"+">>, Split(sk[i])))>>]])

RECURSIVE construct_job_urls(_)
construct_job_urls(sk) ==
    IF sk = <<>> THEN <<>>
    ELSE UrlsOfSkill(Join(<<"+">>, Split(Head(sk))), base_urls)
         \o construct_job_urls(Tail(sk))

-----------------------------------------------------------------------------
(* scrape_jobs_from_url, scrape_jobs                                       *)

DefaultMaxPosts == 5

LocElems == {"div.location", "span.location", "span.jobposting-location"}

\* A posting container, by the elements found in it: title / company / link
\* say whether the site's own selector for that field matches; locs is the
\* set of location elements the container holds.
Card(title, company, link, locs) ==
    [title |-> title, company |-> company, link |-> link, locs |-> locs]

FetchFailed == [ok |-> FALSE, cards |-> <<>>]
Page(cards) == [ok |-> TRUE, cards |-> cards]

Text(field, idx) == <<field, idx>>
NoText == <<>>

Posting(s, idx, location, base) ==
    [site |-> s, title |-> Text("title", idx), company |-> Text("company", idx),
     location |-> location, link |-> [base |-> base, href |-> idx]]

\* One pass of the loop body for the container at position idx:
\* ok = FALSE when a find() returned None and the attribute access raised.
ParseIndeed(card, idx) ==
    [ok  |-> card.title /\ card.company /\ card.link,
     job |-> Posting("indeed", idx,
                IF card.locs \cap {"div.location", "span.location"} # {}
                THEN Text("location", idx) ELSE NoText,
                "https://www.indeed.com")]

ParseMonster(card, idx) ==
    [ok  |-> card.title /\ card.company /\ "div.location" \in card.locs /\ card.link,
     job |-> Posting("monster", idx, Text("location", idx), "")]

ParseSimplyhired(card, idx) ==
    [ok  |-> card.title /\ card.company
             /\ "span.jobposting-location" \in card.locs /\ card.link,
     job |-> Posting("simplyhired", idx, Text("location", idx),
                     "https://www.simplyhired.com")]

ParseCard(s, card, idx) ==
    CASE s = "indeed" -> ParseIndeed(card, idx)
      [] s = "monster" -> ParseMonster(card, idx)
      [] s = "simplyhired" -> ParseSimplyhired(card, idx)

\* for card in cards: ... jobs.append(...); an exception leaves the loop
\* with the jobs appended so far.
RECURSIVE ParseCards(_, _, _, _)
ParseCards(s, cards, idx, jobs) ==
    IF idx > Len(cards) THEN [raised |-> FALSE, jobs |-> jobs]
    ELSE LET r == ParseCard(s, cards[idx], idx)
         IN  IF r.ok THEN ParseCards(s, cards, idx + 1, Append(jobs, r.job))
             ELSE [raised |-> TRUE, jobs |-> jobs]

\* A plausible slip: no try/except, so the exception leaves the function.
ScrapeUnguarded(s, outcome, limit) ==
    IF ~outcome.ok THEN [raised |-> TRUE, jobs |-> <<>>]
    ELSE ParseCards(s, Prefix(outcome.cards, limit), 1, <<>>)

\* try: get, raise_for_status, parse ... except Exception: log; return jobs
scrape_jobs_from_url(s, outcome, limit) ==
    IF ~outcome.ok THEN [raised |-> FALSE, jobs |-> <<>>]
    ELSE [raised |-> FALSE,
          jobs |-> ParseCards(s, Prefix(outcome.cards, limit), 1, <<>>).jobs]

\* for site, url in urls: all_jobs.extend(scrape_jobs_from_url(site, url))
RECURSIVE ScrapeLoop(_, _, _, _)
ScrapeLoop(urls, outs, k, all_jobs) ==
    IF k > Len(urls) THEN [raised |-> FALSE, jobs |-> all_jobs]
    ELSE LET r == scrape_jobs_from_url(urls[k][1], outs[k], DefaultMaxPosts)
         IN  IF r.raised THEN [raised |-> TRUE, jobs |-> all_jobs]
             ELSE ScrapeLoop(urls, outs, k + 1, all_jobs \o r.jobs)

scrape_jobs(sk, outs) == ScrapeLoop(construct_job_urls(sk), outs, 1, <<>>)

-----------------------------------------------------------------------------
(* Python values and json.dump / json.load                                 *)

PyStr(chars) == [t |-> "str", v |-> chars]
PyList(items) == [t |-> "list", v |-> items]
PyDict(pairs) == [t |-> "dict", v |-> pairs]
PyNone == [t |-> "none", v |-> <<>>]

Corrupt == [t |-> "corrupt", v |-> <<>>]
Absent == [t |-> "absent", v |-> <<>>]

NonAscii == {"é"}
CodeHex(c) == <<"0", "0", "e", "9">>
CharOfHex(h) == "é"

\* The characters json writes for one character of a string.
EscapeChar(c, ensure_ascii) ==
    IF c = "\"" THEN <<"\\", "\"">>
    ELSE IF c = "\\" THEN <<"\\", "\\">>
    ELSE IF c \in NonAscii /\ ensure_ascii THEN <<"\\", "u">> \o CodeHex(c)
    ELSE <<c>>

EscapeString(chars, ensure_ascii) ==
    Flatten([k \in 1..Len(chars) |-> EscapeChar(chars[k], ensure_ascii)])

\* A plausible slip: a decoder that keeps escape sequences as written.
KeepEscapes(e) == e

\* The decoder's scan of a string body.
RECURSIVE UnescapeString(_)
UnescapeString(e) ==
    IF e = <<>> THEN <<>>
    ELSE IF Head(e) = "\\"
         THEN IF e[2] = "u"
              THEN <<CharOfHex(SubSeq(e, 3, 6))>> \o UnescapeString(SubSeq(e, 7, Len(e)))
              ELSE <<e[2]>> \o UnescapeString(SubSeq(e, 3, Len(e)))
         ELSE <<Head(e)>> \o UnescapeString(Tail(e))

RECURSIVE JsonDump(_, _)
JsonDump(value, ensure_ascii) ==
    CASE value.t = "str" -> [t |-> "jstr", v |-> EscapeString(value.v, ensure_ascii)]
      [] value.t = "list" ->
            [t |-> "jarr",
             v |-> [k \in 1..Len(value.v) |-> JsonDump(value.v[k], ensure_ascii)]]
      [] value.t = "dict" ->
            [t |-> "jobj",
             v |-> [k \in 1..Len(value.v) |->
                      <<value.v[k][1], JsonDump(value.v[k][2], ensure_ascii)>>]]
      [] value.t = "none" -> [t |-> "jnull", v |-> <<>>]

RECURSIVE JsonValue(_)
JsonValue(text) ==
    CASE text.t = "jstr" -> PyStr(UnescapeString(text.v))
      [] text.t = "jarr" -> PyList([k \in 1..Len(text.v) |-> JsonValue(text.v[k])])
      [] text.t = "jobj" ->
            PyDict([k \in 1..Len(text.v) |-> <<text.v[k][1], JsonValue(text.v[k][2])>>])
      [] text.t = "jnull" -> PyNone

\* json.load: ok = FALSE when it raises (the text is not a JSON document).
JsonLoad(text) ==
    IF text.t = "corrupt" THEN [ok |-> FALSE, value |-> PyNone]
    ELSE [ok |-> TRUE, value |-> JsonValue(text)]

\* dict.get(key, default)
DictGet(d, key, default) ==
    IF \E k \in 1..Len(d.v) : d.v[k][1] = key
    THEN d.v[CHOOSE k \in 1..Len(d.v) : d.v[k][1] = key][2]
    ELSE default

\* bool(value)
Truthy(value) == value.t # "none" /\ value.v # <<>>

-----------------------------------------------------------------------------
(* The snapshot store: save_parsed_data, load_latest_parsed_data,          *)
(* save_scraped_jobs                                                       *)

TopNDefault == 3

Names == 0..MaxTime

\* What open(filename, 'w') + json.dump can do: complete; fail in open (the
\* file is left as it was); fail after open truncated the file.
WriteOutcomes == {"ok", "open_fail", "dump_fail"}

PathOf(ts) == [t |-> "path", v |-> ts]
NoPath == [t |-> "none", v |-> 0 - 1]

Remove(seq, x) == SelectSeq(seq, LAMBDA y : y # x)

\* with open(filename, 'w') as f: json.dump(...)
WriteFile(dir, ts, text, w) ==
    CASE w = "ok" -> [dir EXCEPT ![ts] = text]
      [] w = "dump_fail" -> [dir EXCEPT ![ts] = Corrupt]
      [] w = "open_fail" -> dir

\* The mtime order after the write.
Touch(ord, ts, w) == IF w = "open_fail" THEN ord ELSE Append(Remove(ord, ts), ts)

\* Data_Parsing.save_parsed_data(parsed_data, timestamp)
save_parsed_data_parsing(dir, ord, parsed_data, timestamp, w) ==
    [files |-> WriteFile(dir, timestamp, JsonDump(parsed_data, TRUE), w),
     order |-> Touch(ord, timestamp, w),
     ret   |-> PathOf(timestamp)]

\* Data_Cleaning.save_parsed_data(parsed_data), called at clock value ts
save_parsed_data_cleaning(dir, ord, parsed_data, ts, w) ==
    [files |-> WriteFile(dir, ts, JsonDump(parsed_data, FALSE), w),
     order |-> Touch(ord, ts, w),
     ret   |-> IF w = "ok" THEN PathOf(ts) ELSE NoPath]

\* Data_Integration.save_scraped_jobs(jobs, timestamp); jobs is written as
\* the JSON array of the postings.
save_scraped_jobs(dir, jobs, timestamp, w) ==
    [files |-> WriteFile(dir, timestamp, [t |-> "jarr", v |-> jobs], w),
     ret   |-> PathOf(timestamp)]

\* glob.glob(os.path.join(data_dir, "parsed_data_*.json"))
Glob(dir) == {n \in DOMAIN dir : dir[n] # Absent}

\* os.path.getmtime, as the rank in the modification order
Mtime(ord, n) == CHOOSE k \in 1..Len(ord) : ord[k] = n

\* max(files, key=os.path.getmtime)
MaxByMtime(found, ord) ==
    CHOOSE n \in found : \A m \in found : Mtime(ord, m) <= Mtime(ord, n)

NoData == [raised |-> FALSE, data |-> PyNone, timestamp |-> NoPath]

\* A plausible slip: json.load outside the try block.
LoadIntegrationUnguarded(dir, ord) ==
    IF Glob(dir) = {} THEN NoData
    ELSE LET latest_file == MaxByMtime(Glob(dir), ord)
             r == JsonLoad(dir[latest_file])
         IN  [raised |-> ~r.ok, data |-> r.value,
              timestamp |-> IF r.ok THEN PathOf(latest_file) ELSE NoPath]

\* Data_Integration.load_latest_parsed_data(): (data, timestamp)
load_latest_parsed_data_integration(dir, ord) ==
    IF Glob(dir) = {} THEN NoData
    ELSE LET latest_file == MaxByMtime(Glob(dir), ord)
             r == JsonLoad(dir[latest_file])
         IN  IF r.ok
             THEN [raised |-> FALSE, data |-> r.value, timestamp |-> PathOf(latest_file)]
             ELSE NoData

NoSkills == [raised |-> FALSE, value |-> PyList(<<>>)]

\* Data_Cleaning.load_latest_parsed_data(top_n=top_n)
load_latest_parsed_data_cleaning(dir, ord, top_n) ==
    IF Glob(dir) = {} THEN NoSkills
    ELSE LET latest_file == MaxByMtime(Glob(dir), ord)
             r == JsonLoad(dir[latest_file])
         IN  IF ~r.ok THEN NoSkills
             ELSE IF r.value.t # "dict" THEN NoSkills \* .get raises, caught
             ELSE LET all_skills == DictGet(r.value, "skills", PyList(<<>>))
                  IN  IF all_skills.t # "list" THEN NoSkills
                      ELSE [raised |-> FALSE,
                            value |-> PyList(Prefix(all_skills.v, top_n))]

-----------------------------------------------------------------------------
(* Inputs                                                                  *)

AllSkills ==
    << <<"s", "q", "l">>,
       <<"m", "l", " ", "o", "p", "s">>,
       <<"\"", "q", "a", "\"">>,
       <<"c", "a", "f", "é">>,
       <<"g", "o">>,
       <<"r">> >>

\* A resume with no skills section, and one with MaxSkills skills.
SkillLists == {Prefix(AllSkills, n) : n \in {0, MaxSkills}}

Digits == <<"0", "1", "2", "3", "4", "5", "6", "7", "8", "9">>

\* datetime.now().isoformat(), to the second
IsoFormat(t) == <<"T", Digits[t + 1]>>

CompleteCard == Card(TRUE, TRUE, TRUE, LocElems)
NoLocationCard == Card(TRUE, TRUE, TRUE, {})

\* The parsed record built by Data_Parsing.main
ParsedRecord(name, emails, phones, skill_list, source, t) ==
    PyDict(<< <<"name", PyStr(name)>>,
              <<"emails", PyList(emails)>>,
              <<"phones", PyList(phones)>>,
              <<"skills", PyList([k \in 1..Len(skill_list) |-> PyStr(skill_list[k])])>>,
              <<"source", PyStr(source)>>,
              <<"parsed_at", PyStr(IsoFormat(t))>> >>)

CandidateRecord(skill_list, t) ==
    ParsedRecord(<<"Z", "o", "é">>, <<PyStr(<<"z", "@", "x", ".", "i", "o">>)>>, <<>>,
                 skill_list, <<"/", "r", ".", "p", "d", "f">>, t)

Idle == [op |-> "init", status |-> "ok", loaded |-> PyNone, saved |-> PyNone,
         ret |-> NoPath, write |-> "ok"]

-----------------------------------------------------------------------------
(* The three programs over the data directory                              *)

StoreIdle ==
    /\ pc = "store" /\ skills = <<>> /\ site = "indeed" /\ outcomes = <<>>
    /\ max_posts = 0 /\ result = <<>>

Init ==
    /\ files = [n \in Names |-> Absent]
    /\ order = <<>>
    /\ now = 0
    /\ last = Idle
    /\ scrape_dir = [n \in Names |-> Absent]
    /\ StoreIdle

Tick ==
    /\ now < MaxTime
    /\ now' = now + 1
    /\ last' = [Idle EXCEPT !.op = "tick"]
    /\ UNCHANGED <<files, order, scrape_dir, pc, skills, site, outcomes, max_posts, result>>

\* The local wall clock is set back (clock adjustment, end of daylight saving).
ClockBack ==
    /\ \E t \in 0..(now - 1) : now' = t
    /\ last' = [Idle EXCEPT !.op = "tick"]
    /\ UNCHANGED <<files, order, scrape_dir, pc, skills, site, outcomes, max_posts, result>>

\* Data_Parsing.main
ParserMain ==
    \E skill_list \in SkillLists, w \in WriteOutcomes :
        LET timestamp == now
            parsed == CandidateRecord(skill_list, now)
            r == save_parsed_data_parsing(files, order, parsed, timestamp, w)
        IN  /\ files' = r.files
            /\ order' = r.order
            /\ last' = [op |-> "parse", status |-> "ok", loaded |-> PyNone,
                        saved |-> parsed, ret |-> r.ret, write |-> w]
            /\ UNCHANGED <<now, scrape_dir, pc, skills, site, outcomes, max_posts, result>>

\* Data_Cleaning.main
CleanerMain ==
    \E w \in WriteOutcomes :
        LET l == load_latest_parsed_data_cleaning(files, order, TopNDefault)
            data == l.value
            r == save_parsed_data_cleaning(files, order, data, now, w)
        IN  IF l.raised
            THEN /\ last' = [op |-> "clean", status |-> "crashed", loaded |-> l,
                             saved |-> PyNone, ret |-> NoPath, write |-> "ok"]
                 /\ UNCHANGED <<files, order>>
            ELSE \* data is a list, never None: the save always runs
                 /\ files' = r.files
                 /\ order' = r.order
                 /\ last' = [op |-> "clean", status |-> "ok", loaded |-> l,
                             saved |-> data, ret |-> r.ret, write |-> w]
            /\ UNCHANGED <<now, scrape_dir, pc, skills, site, outcomes, max_posts, result>>

\* The argument scrape_jobs iterates over: the strings of a list.
SkillsArg(value) == [k \in 1..Len(value.v) |-> value.v[k].v]

IterableOfStr(value) ==
    value.t = "list" /\ \A k \in 1..Len(value.v) : value.v[k].t = "str"

\* In one run every fetch fails, or every fetch gives the same page.
RunOutcomes(n) == {[k \in 1..n |-> o] : o \in {FetchFailed, Page(<<CompleteCard>>)}}

\* Data_Integration.main.  Web-scraped/ is only ever written, never read:
\* here the run's save is kept in last (what it returned, how the write
\* went); the directory itself is followed in SpecScrape.
ScraperMain ==
    LET timestamp == now
        l == load_latest_parsed_data_integration(files, order)
        found == DictGet(l.data, "skills", PyNone)
        done(status, ret, w) ==
            last' = [op |-> "scrape", status |-> status, loaded |-> l,
                     saved |-> PyNone, ret |-> ret, write |-> w]
    IN  /\ UNCHANGED <<files, order, now, scrape_dir, pc, skills, site, outcomes,
                       max_posts, result>>
        /\ IF l.raised THEN done("crashed", NoPath, "ok")
           ELSE IF ~Truthy(l.data) THEN done("cannot_proceed", NoPath, "ok")
           ELSE IF l.data.t # "dict"  \* data.get: AttributeError, not caught
           THEN done("crashed", NoPath, "ok")
           ELSE IF ~Truthy(found) THEN done("cannot_proceed", NoPath, "ok")
           ELSE IF ~IterableOfStr(found)  \* skill.split: not caught
           THEN done("crashed", NoPath, "ok")
           ELSE \E w \in WriteOutcomes :
                \E outs \in RunOutcomes(Len(base_urls) * Len(found.v)) :
                    LET jobs == scrape_jobs(SkillsArg(found), outs)
                        r == save_scraped_jobs(scrape_dir, jobs.jobs, timestamp, w)
                    IN  IF jobs.raised THEN done("crashed", NoPath, "ok")
                        ELSE done("ok", r.ret, w)

Next == Tick \/ ClockBack \/ ParserMain \/ CleanerMain \/ ScraperMain

Spec == Init /\ [][Next]_vars

-----------------------------------------------------------------------------
(* construct_job_urls applied to bounded skill lists                       *)

UrlSkillStrings ==
    SeqsUpTo({"a", " "}, MaxSkillLen) \cup {<<"m", "l", "\t", "o", "p", "s">>}

InitUrls ==
    /\ files = [n \in Names |-> Absent] /\ order = <<>> /\ now = 0 /\ last = Idle
    /\ scrape_dir = [n \in Names |-> Absent]
    /\ pc = "urls_call"
    /\ skills \in SeqsUpTo(UrlSkillStrings, MaxUrlSkills)
    /\ site = "indeed" /\ outcomes = <<>> /\ max_posts = 0 /\ result = <<>>

ConstructJobUrlsCall ==
    /\ pc = "urls_call"
    /\ result' = construct_job_urls(skills)
    /\ pc' = "urls_done"
    /\ UNCHANGED <<files, order, now, last, scrape_dir, skills, site, outcomes, max_posts>>

NextUrls == ConstructJobUrlsCall

SpecUrls == InitUrls /\ [][NextUrls]_vars

-----------------------------------------------------------------------------
(* scrape_jobs_from_url applied to bounded pages                           *)

AdapterCards ==
    {Card(TRUE, TRUE, TRUE, locs) :
        locs \in {{}, {"div.location"}, {"span.location"},
                  {"span.jobposting-location"}, LocElems}}
    \cup {Card(FALSE, TRUE, TRUE, LocElems), Card(TRUE, FALSE, TRUE, LocElems),
          Card(TRUE, TRUE, FALSE, LocElems)}

AdapterOutcomes == {FetchFailed} \cup {Page(c) : c \in SeqsUpTo(AdapterCards, MaxCards)}

PostLimits == (1..MaxPosts) \cup {DefaultMaxPosts}

InitAdapter ==
    /\ files = [n \in Names |-> Absent] /\ order = <<>> /\ now = 0 /\ last = Idle
    /\ scrape_dir = [n \in Names |-> Absent]
    /\ pc = "adapter_call"
    /\ skills = <<>>
    /\ site \in Sites
    /\ \E o \in AdapterOutcomes : outcomes = <<o>>
    /\ max_posts \in PostLimits
    /\ result = [raised |-> FALSE, jobs |-> <<>>]

ScrapeJobsFromUrlCall ==
    /\ pc = "adapter_call"
    /\ result' = scrape_jobs_from_url(site, outcomes[1], max_posts)
    /\ pc' = "adapter_done"
    /\ UNCHANGED <<files, order, now, last, scrape_dir, skills, site, outcomes, max_posts>>

NextAdapter == ScrapeJobsFromUrlCall

SpecAdapter == InitAdapter /\ [][NextAdapter]_vars

-----------------------------------------------------------------------------
(* scrape_jobs and save_scraped_jobs: Data_Integration.main once the       *)
(* skills are loaded                                                       *)

ScrapeOutcomes ==
    {FetchFailed, Page(<<CompleteCard>>), Page(<<CompleteCard, NoLocationCard>>)}

InitScrape ==
    /\ files = [n \in Names |-> Absent] /\ order = <<>> /\ now = 0 /\ last = Idle
    /\ scrape_dir = [n \in Names |-> Absent]
    /\ pc = "scrape_call"
    /\ skills \in {Prefix(AllSkills, n) : n \in 0..MaxScrapeSkills}
    /\ site = "indeed"
    /\ outcomes \in [1..(Len(base_urls) * Len(skills)) -> ScrapeOutcomes]
    /\ max_posts = DefaultMaxPosts
    /\ result = [raised |-> FALSE, jobs |-> <<>>]

ScrapeJobsCall ==
    /\ pc = "scrape_call"
    /\ result' = scrape_jobs(skills, outcomes)
    /\ pc' = IF result'.raised THEN "scrape_raised" ELSE "scrape_done"
    /\ UNCHANGED <<files, order, now, last, scrape_dir, skills, site, outcomes, max_posts>>

SaveScrapedJobsCall ==
    /\ pc = "scrape_done"
    /\ \E w \in WriteOutcomes :
        LET r == save_scraped_jobs(scrape_dir, result.jobs, now, w)
        IN  /\ scrape_dir' = r.files
            /\ last' = [op |-> "scrape", status |-> "ok", loaded |-> PyNone,
                        saved |-> PyNone, ret |-> r.ret, write |-> w]
    /\ pc' = "scrape_saved"
    /\ UNCHANGED <<files, order, now, skills, site, outcomes, max_posts, result>>

NextScrape == ScrapeJobsCall \/ SaveScrapedJobsCall

SpecScrape == InitScrape /\ [][NextScrape]_vars

-----------------------------------------------------------------------------
(* Properties                                                              *)

FirstCards == Prefix(outcomes[1].cards, max_posts)

SiteOfPair(k) == <<"indeed", "monster", "simplyhired">>[((k - 1) % 3) + 1]

\* What the pair at position k of the url list adds to the aggregate.
Contribution(k) ==
    IF outcomes[k].ok
    THEN ParseCards(SiteOfPair(k), Prefix(outcomes[k].cards, DefaultMaxPosts), 1, <<>>).jobs
    ELSE <<>>

\* C1: scrape_jobs never raises; whatever the fetch outcomes of the (site,
\* url) pairs, a pair whose fetch fails adds no posting and every pair is
\* still processed: the aggregate is the concatenation, in url order, of the
\* postings of the pairs whose fetch succeeded.
C1_FailedFetchIsolated ==
    pc # "scrape_call" =>
        /\ pc # "scrape_raised"
        /\ ~result.raised
        /\ result.jobs = Flatten([k \in 1..Len(outcomes) |-> Contribution(k)])

\* One skill: indeed's fetch fails, monster's and simplyhired's succeed.
C1_Witness ==
    /\ pc = "scrape_done"
    /\ Len(skills) = 1
    /\ ~outcomes[1].ok /\ outcomes[2].ok /\ outcomes[3].ok
    /\ Len(result.jobs) >= 2
    /\ \A k \in 1..Len(result.jobs) : result.jobs[k].site # "indeed"

\* C2: on every site, a container without a location element yields a
\* posting with location "" and the other containers among the first
\* max_posts still yield their postings.
C2_MissingLocationDefaults ==
    ( /\ pc = "adapter_done"
      /\ outcomes[1].ok
      /\ \A k \in 1..Len(FirstCards) :
            /\ FirstCards[k].title /\ FirstCards[k].company /\ FirstCards[k].link
            /\ FirstCards[k].locs \in {{}, LocElems} )
    => /\ Len(result.jobs) = Len(FirstCards)
       /\ \A k \in 1..Len(FirstCards) :
            /\ result.jobs[k].title = Text("title", k)
            /\ result.jobs[k].location =
                  IF FirstCards[k].locs = {} THEN NoText ELSE Text("location", k)

\* C3: each save returns the written path when the write completes, a
\* failure indicator that is not a path when it does not, and never raises.
C3_SaveReturnsPathOrFailure ==
    (last.op \in {"parse", "clean"} \/ (last.op = "scrape" /\ last.status = "ok"))
    => /\ last.status # "crashed"
       /\ last.write = "ok" => last.ret = PathOf(now)
       /\ last.write # "ok" => last.ret.t # "path"

\* C4: a snapshot file, once written, keeps its content: no step changes or
\* removes an existing snapshot.
C4_AppendOnly ==
    [][\A n \in Names :
          files[n].t \notin {"absent", "corrupt"} => files'[n] = files[n]]_vars

SavedAlone ==
    /\ last.op = "parse" /\ last.write = "ok"
    /\ Cardinality(Glob(files)) = 1

SavedSkills == DictGet(last.saved, "skills", PyNone).v

\* C5: right after a completed save of a candidate record into an otherwise
\* empty data directory, load-latest returns the record saved, and with a
\* skills limit k it returns the first min(k, n) skills in saved order.
C5_RoundTrip ==
    SavedAlone =>
        /\ load_latest_parsed_data_integration(files, order) =
              [raised |-> FALSE, data |-> last.saved, timestamp |-> last.ret]
        /\ \A k \in 0..(MaxSkills + 1) :
              load_latest_parsed_data_cleaning(files, order, k) =
                  [raised |-> FALSE,
                   value |-> PyList([i \in 1..Min(k, Len(SavedSkills)) |-> SavedSkills[i]])]

\* A record of at least three skills was saved alone; limit 1 gives the first.
C5_Witness ==
    /\ SavedAlone
    /\ Len(SavedSkills) >= 3
    /\ load_latest_parsed_data_cleaning(files, order, 1).value =
          PyList(<<PyStr(AllSkills[1])>>)
    /\ load_latest_parsed_data_integration(files, order).data = last.saved

\* The file modified most recently.
LatestFile == order[Len(order)]

NothingToLoad == Glob(files) = {} \/ files[LatestFile].t = "corrupt"

SkillsOrEmpty(value, top_n) ==
    IF value.t # "dict" THEN PyList(<<>>)
    ELSE IF DictGet(value, "skills", PyList(<<>>)).t # "list" THEN PyList(<<>>)
    ELSE PyList(Prefix(DictGet(value, "skills", PyList(<<>>)).v, top_n))

C7_FailureYieldsEmpty ==
    ( /\ pc = "adapter_done"
      /\ \/ ~outcomes[1].ok
         \/ \E k \in 1..Len(FirstCards) : ~ParseCard(site, FirstCards[k], k).ok )
    => result.jobs = <<>>

\* C8: no run of a program ends with an unhandled exception.
C8_NoRunCrashes == last.status # "crashed"

RecordKeys == {"name", "emails", "phones", "skills", "source", "parsed_at"}

\* C9: every completely written parsed_data file holds a JSON object with
\* the keys name, emails, phones, skills, source, parsed_at.
C9_SnapshotsAreRecords ==
    \A n \in Names :
        files[n].t \notin {"absent", "corrupt"} =>
            /\ files[n].t = "jobj"
            /\ {files[n].v[k][1] : k \in 1..Len(files[n].v)} = RecordKeys

\* The query of a skill: its non-whitespace characters, with one "+" for
\* each run of whitespace that lies between two words.
ExpectedQuery(s) ==
    Flatten([i \in 1..Len(s) |->
        IF s[i] \notin Whitespace THEN <<s[i]>>
        ELSE IF /\ i > 1
                /\ s[i - 1] \notin Whitespace
                /\ \E j \in (i + 1)..Len(s) : s[j] \notin Whitespace
             THEN <<"+">>
             ELSE <<>>])

\* C10: construct_job_urls returns |skills| x 3 pairs, skills-major, then
\* in the order indeed, monster, simplyhired; each url is the site's
\* template with the skill's words joined by "+" as the query.
C10_UrlsSkillsMajor ==
    pc = "urls_done" =>
        /\ Len(result) = 3 * Len(skills)
        /\ \A i \in 1..Len(skills) : \A j \in 1..3 :
              result[3 * (i - 1) + j] =
                  << SiteOfPair(j),
                     <<base_urls[j][2][1]>> \o ExpectedQuery(skills[i])
                        \o <<base_urls[j][2][3]>> >>

\* Two skills, the first of two words.
C10_Witness ==
    /\ pc = "urls_done"
    /\ Len(skills) = 2
    /\ skills[1] = <<"a", " ", "a">>
    /\ skills[2] # skills[1]
    /\ result[1] = <<"indeed", <<"https://www.indeed.com/jobs?q=", "a", "+", "a", "&l=">> >>
    /\ Len(result) = 6

=============================================================================
